---- MODULE Spec2Model ----
(***************************************************************************)
(* A model of midi_generator_advanced_GUI.py: the music tables, the pure   *)
(* generation functions (harmonic suggestions, scale, melody), the song    *)
(* assembler generate_midi_file, and the MidiGeneratorApp callbacks that   *)
(* drive it.  Python strings are TLA+ strings; Python lists are sequences  *)
(* (1-based here, 0-based in the source: every index is shifted by one     *)
(* where it is used).                                                      *)
(***************************************************************************)
EXTENDS Integers, Sequences, FiniteSets, TLC

VARIABLES
    bpm_var,              \* self.bpm_var: the text of the BPM entry
    structure_var,        \* self.structure_var: the selected structure preset
    random_notes_var,     \* self.random_notes_var: the Random Notes checkbox
    section_note_vars,    \* self.section_note_vars: one note name per row
    section_mode_vars,    \* self.section_mode_vars: one mode name per row
    section_length_vars,  \* self.section_length_vars: one entry text per row
    harmony_label,        \* text of self.harmony_label
    status_label,         \* text of self.status_label
    messagebox,           \* the modal dialog generate_midi is blocked in, or NoDialog
    run,                  \* the locals of the generate_midi call blocked in its dialog
    disk,                 \* names of the files mid.save has written
    events,               \* number of GUI events handled so far
    call,                 \* arguments of a direct call of a module-level function
    ret                   \* what that call returned or raised

vars == <<bpm_var, structure_var, random_notes_var, section_note_vars,
          section_mode_vars, section_length_vars, harmony_label, status_label,
          messagebox, run, disk, events, call, ret>>

gui_vars == <<bpm_var, structure_var, random_notes_var, section_note_vars,
              section_mode_vars, section_length_vars, harmony_label,
              status_label, messagebox, run, events>>

(***************************************************************************)
(* Python string operations, character by character.                       *)
(***************************************************************************)
CharAt(s, i) == SubSeq(s, i, i)

Digits == <<"0", "1", "2", "3", "4", "5", "6", "7", "8", "9">>

IsDigit(c) == \E d \in 1..10 : Digits[d] = c

DigitValue(c) == (CHOOSE d \in 1..10 : Digits[d] = c) - 1

\* sub in s
Contains(sub, s) ==
    \E i \in 1..(Len(s) - Len(sub) + 1) : SubSeq(s, i, i + Len(sub) - 1) = sub

\* s.split(sep) for a one-character sep: every piece between separators,
\* empty pieces included, so the result has (number of sep in s) + 1 entries.
RECURSIVE SplitFrom(_, _, _, _)
SplitFrom(s, sep, start, i) ==
    IF i > Len(s) THEN <<SubSeq(s, start, Len(s))>>
    ELSE IF CharAt(s, i) = sep
         THEN <<SubSeq(s, start, i - 1)>> \o SplitFrom(s, sep, i + 1, i + 1)
         ELSE SplitFrom(s, sep, start, i + 1)

Split(s, sep) == SplitFrom(s, sep, 1, 1)

IsSpace(c) == c \in {" ", "\n", "\t"}

\* s.split() with no separator: the maximal runs of non-whitespace.
RECURSIVE SplitWsFrom(_, _, _)
SplitWsFrom(s, start, i) ==
    LET piece == IF start < i THEN <<SubSeq(s, start, i - 1)>> ELSE <<>>
    IN  IF i > Len(s) THEN piece
        ELSE IF IsSpace(CharAt(s, i))
             THEN piece \o SplitWsFrom(s, i + 1, i + 1)
             ELSE SplitWsFrom(s, start, i + 1)

SplitWs(s) == SplitWsFrom(s, 1, 1)

\* sep.join(list)
RECURSIVE Join(_, _)
Join(sep, list) ==
    IF list = <<>> THEN ""
    ELSE IF Len(list) = 1 THEN list[1]
    ELSE list[1] \o sep \o Join(sep, Tail(list))

\* s.replace(old, new) for a one-character old: the pieces of s between the
\* occurrences of old, put together again with new between them
Replace(s, old, new) == Join(new, Split(s, old))

\* str(n) for an integer n
RECURSIVE StrNat(_)
StrNat(n) == IF n < 10 THEN Digits[n + 1] ELSE StrNat(n \div 10) \o Digits[(n % 10) + 1]

Str(n) == IF n < 0 THEN "-" \o StrNat(0 - n) ELSE StrNat(n)

RECURSIVE Strip(_)
Strip(s) ==
    IF s = "" THEN ""
    ELSE IF IsSpace(Head(s)) THEN Strip(Tail(s))
    ELSE IF IsSpace(CharAt(s, Len(s))) THEN Strip(SubSeq(s, 1, Len(s) - 1))
    ELSE s

RECURSIVE DigitsValue(_, _)
DigitsValue(s, acc) ==
    IF s = "" THEN acc
    ELSE IF Head(s) = "_" THEN DigitsValue(Tail(s), acc)
    ELSE DigitsValue(Tail(s), 10 * acc + DigitValue(Head(s)))

\* the digits of an int() literal: digits, single underscores between them
IsIntBody(s) ==
    /\ s # ""
    /\ \A i \in 1..Len(s) : IsDigit(CharAt(s, i)) \/ CharAt(s, i) = "_"
    /\ IsDigit(Head(s)) /\ IsDigit(CharAt(s, Len(s)))
    /\ ~ Contains("__", s)

\* int(text): surrounding whitespace stripped, an optional sign, the digits;
\* anything else raises ValueError (ok = FALSE).
ParseInt(text) ==
    LET t    == Strip(text)
        sign == IF t # "" /\ Head(t) \in {"+", "-"} THEN Head(t) ELSE ""
        body == IF sign = "" THEN t ELSE Tail(t)
    IN  IF IsIntBody(body)
        THEN [ok |-> TRUE,
              val |-> IF sign = "-" THEN 0 - DigitsValue(body, 0) ELSE DigitsValue(body, 0)]
        ELSE [ok |-> FALSE, val |-> 0]

(***************************************************************************)
(* The tables.                                                             *)
(***************************************************************************)
NOTE_NAMES == <<"C", "C#", "D", "D#", "E", "F", "F#", "G", "G#", "A", "A#", "B">>

NoteNameSet == {NOTE_NAMES[i] : i \in 1..Len(NOTE_NAMES)}

\* {name: i for i, name in enumerate(NOTE_NAMES)}
BASE_NOTES == [name \in NoteNameSet |-> (CHOOSE i \in 1..Len(NOTE_NAMES) : NOTE_NAMES[i] = name) - 1]

MODES ==
    [m \in {"Major (Ionian)", "Minor (Aeolian)", "Dorian", "Phrygian", "Lydian",
            "Mixolydian", "Locrian"} |->
        CASE m = "Major (Ionian)"  -> <<2, 2, 1, 2, 2, 2, 1>>
          [] m = "Minor (Aeolian)" -> <<2, 1, 2, 2, 1, 2, 2>>
          [] m = "Dorian"          -> <<2, 1, 2, 2, 2, 1, 2>>
          [] m = "Phrygian"        -> <<1, 2, 2, 2, 1, 2, 2>>
          [] m = "Lydian"          -> <<2, 2, 2, 1, 2, 2, 1>>
          [] m = "Mixolydian"      -> <<2, 2, 1, 2, 2, 1, 2>>
          [] m = "Locrian"         -> <<1, 2, 2, 1, 2, 2, 2>>]

ModeNameSet == DOMAIN MODES

STRUCTURE_OPTIONS ==
    <<"Intro-Verse-Chorus-Verse-Chorus-Bridge-Chorus-Outro",
      "Verse-Chorus-Verse-Chorus-Bridge-Chorus",
      "Intro-Verse-Chorus-Outro">>

CIRCLE_OF_FIFTHS == <<0, 7, 2, 9, 4, 11, 6, 1, 8, 3, 10, 5>>

\* list.index(v): the 0-based position of the first entry equal to v
IndexOf(list, v) ==
    (CHOOSE i \in 1..Len(list) : list[i] = v /\ \A j \in 1..(i - 1) : list[j] # v) - 1

(***************************************************************************)
(* Program constants.                                                      *)
(***************************************************************************)
MIDDLE_C == 60          \* BASE_NOTES[root_note_name] + 60

NOTE_DURATION == 480    \* 'duration': 480

NOTE_VELOCITY == 100    \* 'velocity': 100

OCTAVE == 12            \* 12 * (i // len(scale))

MIN_BPM == 20

MAX_BPM == 300

MIN_LENGTH == 1

MAX_LENGTH == 32

(***************************************************************************)
(* get_harmonic_suggestions                                                *)
(***************************************************************************)
SuggestionOffsets == <<0 - 1, 1, 0 - 2, 2>>

\* A test for 'Major' alone: Lydian and Mixolydian fall to the minor side.
suggested_mode_major_only(mode) ==
    IF Contains("Major", mode) THEN "Major (Ionian)" ELSE "Minor (Aeolian)"

\* 'Major (Ionian)' if 'Major' in mode or 'Lydian' in mode or 'Mixolydian' in mode
\* else 'Minor (Aeolian)'
suggested_mode(mode) ==
    IF Contains("Major", mode) \/ Contains("Lydian", mode) \/ Contains("Mixolydian", mode)
    THEN "Major (Ionian)"
    ELSE "Minor (Aeolian)"

\* The offset taken the other way round the circle.
suggestion_note_backwards(circle_idx, offset) ==
    NOTE_NAMES[CIRCLE_OF_FIFTHS[((circle_idx - offset) % 12) + 1] + 1]

\* NOTE_NAMES[CIRCLE_OF_FIFTHS[(circle_idx + offset) % 12]]
suggestion_note(circle_idx, offset) ==
    NOTE_NAMES[CIRCLE_OF_FIFTHS[((circle_idx + offset) % 12) + 1] + 1]

get_harmonic_suggestions(current_note_name, mode) ==
    LET current_note_idx == BASE_NOTES[current_note_name]
        circle_idx       == IndexOf(CIRCLE_OF_FIFTHS, current_note_idx)
    IN  [k \in 1..Len(SuggestionOffsets) |->
            suggestion_note(circle_idx, SuggestionOffsets[k])
                \o " (" \o suggested_mode(mode) \o ")"]

(***************************************************************************)
(* generate_scale                                                          *)
(***************************************************************************)
RECURSIVE ScaleLoop(_, _, _)
ScaleLoop(intervals, scale, current_note) ==
    IF intervals = <<>> THEN scale
    ELSE LET next == current_note + Head(intervals)
         IN  ScaleLoop(Tail(intervals), Append(scale, next), next)

\* intervals, the last one not dropped
WholeList(list) == list

\* intervals[:-1]
AllButLast(list) == SubSeq(list, 1, Len(list) - 1)

generate_scale(root_note, mode) ==
    ScaleLoop(AllButLast(MODES[mode]), <<root_note>>, root_note)

(***************************************************************************)
(* generate_melody                                                         *)
(***************************************************************************)
\* The scale repeated in the same octave.
melody_note_no_octave(scale, i) == scale[(i % Len(scale)) + 1]

\* An octave per beat instead of an octave per pass through the scale.
melody_note_octave_per_beat(scale, i) == scale[(i % Len(scale)) + 1] + (OCTAVE * i)

\* scale[i % len(scale)] + (12 * (i // len(scale))), i counted from 0
melody_note(scale, i) ==
    scale[(i % Len(scale)) + 1] + (OCTAVE * (i \div Len(scale)))

generate_melody(scale, length_in_beats) ==
    [b \in 1..length_in_beats |->
        [note |-> melody_note(scale, b - 1),
         duration |-> NOTE_DURATION,
         velocity |-> NOTE_VELOCITY]]

(***************************************************************************)
(* generate_midi_file.  The result records how the call ended (raised =    *)
(* "" when it returned), the track as far as it was built, the files       *)
(* mid.save wrote, and how many scales and melodies were generated.        *)
(***************************************************************************)
\* mido.bpm2tempo: int(round(60 * 1e6 / bpm)).  60000000 / bpm is never an
\* exact half for bpm < 512, so rounding half up agrees with round().
bpm2tempo(bpm) == ((2 * 60000000) + bpm) \div (2 * bpm)

\* mido rejects a data byte outside 0..127 with a ValueError
DataByteOk(v) == v \in 0..127

\* mido rejects a tempo outside 0..0xffffff with a ValueError
TempoOk(t) == t \in 0..16777215

MetaMessage(type, tempo, time) == [type |-> type, tempo |-> tempo, time |-> time]

Message(type, note, velocity, time) ==
    [type |-> type, note |-> note, velocity |-> velocity, time |-> time]

Raise(st, exc) == [st EXCEPT !.raised = exc]

\* A note_off that carries no delta time: the duration is lost.
note_messages_no_duration(note_event) ==
    <<Message("note_on", note_event.note, note_event.velocity, 0),
      Message("note_off", note_event.note, 0, 0)>>

\* Message('note_on', note=..., velocity=..., time=0), then
\* Message('note_off', note=..., velocity=0, time=note_event['duration'])
note_messages(note_event) ==
    <<Message("note_on", note_event.note, note_event.velocity, 0),
      Message("note_off", note_event.note, 0, note_event.duration)>>

\* for note_event in melody: track.append(note_on); track.append(note_off)
RECURSIVE NoteLoop(_, _)
NoteLoop(melody, st) ==
    IF melody = <<>> THEN st
    ELSE LET note_event == Head(melody)
         IN  IF ~ (DataByteOk(note_event.note) /\ DataByteOk(note_event.velocity))
             THEN Raise(st, "ValueError")
             ELSE NoteLoop(Tail(melody),
                    [st EXCEPT !.track = st.track \o note_messages(note_event)])

\* The body of the section loop from the root note on: the messages one
\* section appends to the track, and the exception that cut them short, if any.
section_messages(root_note_name, mode, section_length) ==
    LET root_note == BASE_NOTES[root_note_name] + MIDDLE_C
        scale     == generate_scale(root_note, mode)
        melody    == generate_melody(scale, section_length)
    IN  NoteLoop(melody, [raised |-> "", track |-> <<>>])

\* section_messages on the notes, modes and lengths the window accepts.  TLC
\* evaluates an operator anew at every use and a constant once: the table is
\* the operator, evaluated once per argument.
SectionMessagesTable ==
    [n \in NoteNameSet, m \in ModeNameSet, l \in MIN_LENGTH..MAX_LENGTH |->
        section_messages(n, m, l)]

SectionMessages(root_note_name, mode, section_length) ==
    IF section_length \in MIN_LENGTH..MAX_LENGTH
    THEN SectionMessagesTable[root_note_name, mode, section_length]
    ELSE section_messages(root_note_name, mode, section_length)

\* section_notes[i] and the other reads of the loop body: Python raises
\* IndexError on a list that has no entry i
Missing(list, i) == i > Len(list)

\* A turn that skips a section the lists have no entry for.
SectionStepSkipMissing(i, section_notes, section_modes, section_lengths, st) ==
    IF Missing(section_notes, i) \/ Missing(section_modes, i)
           \/ Missing(section_lengths, i)
    THEN st
    ELSE IF section_notes[i] \notin DOMAIN BASE_NOTES THEN Raise(st, "KeyError")
    ELSE IF section_modes[i] \notin DOMAIN MODES THEN Raise(st, "KeyError")
    ELSE LET section == SectionMessages(section_notes[i], section_modes[i],
                                        section_lengths[i])
         IN  [st EXCEPT !.scales = st.scales + 1,
                        !.melodies = st.melodies + 1,
                        !.track = st.track \o section.track,
                        !.raised = section.raised]

\* One turn of the section loop, for section i (counted from 1 here): the
\* reads in the order of the source, then the section's messages.
SectionStep(i, section_notes, section_modes, section_lengths, st) ==
    IF Missing(section_notes, i) THEN Raise(st, "IndexError")
    ELSE IF Missing(section_modes, i) THEN Raise(st, "IndexError")
    ELSE IF section_notes[i] \notin DOMAIN BASE_NOTES THEN Raise(st, "KeyError")
    ELSE IF Missing(section_lengths, i) THEN Raise(st, "IndexError")
    ELSE IF section_modes[i] \notin DOMAIN MODES THEN Raise(st, "KeyError")
    ELSE LET section == SectionMessages(section_notes[i], section_modes[i],
                                        section_lengths[i])
         IN  [st EXCEPT !.scales = st.scales + 1,
                        !.melodies = st.melodies + 1,
                        !.track = st.track \o section.track,
                        !.raised = section.raised]

\* for i, section in enumerate(sections): ...
RECURSIVE SectionLoop(_, _, _, _, _, _)
SectionLoop(i, sections, section_notes, section_modes, section_lengths, st) ==
    IF i > Len(sections) THEN st
    ELSE LET after == SectionStep(i, section_notes, section_modes, section_lengths, st)
         IN  IF after.raised # "" THEN after
             ELSE SectionLoop(i + 1, sections, section_notes, section_modes,
                              section_lengths, after)

\* f"song_{section_notes[0]}_{section_modes[0]}_{bpm}bpm.mid"
\*     .replace(" ", "_").replace("#", "sharp")
song_filename(note, mode, bpm) ==
    Replace(Replace("song_" \o note \o "_" \o mode \o "_" \o Str(bpm) \o "bpm.mid",
                    " ", "_"),
            "#", "sharp")

NotCalled ==
    [raised |-> "", track |-> <<>>, scales |-> 0, melodies |-> 0,
     saved |-> <<>>, filename |-> ""]

generate_midi_file(bpm, section_notes, section_modes, section_lengths, structure) ==
    IF bpm = 0 THEN Raise(NotCalled, "ZeroDivisionError")
    ELSE IF ~ TempoOk(bpm2tempo(bpm)) THEN Raise(NotCalled, "ValueError")
    ELSE LET start    == [NotCalled EXCEPT
                            !.track = <<MetaMessage("set_tempo", bpm2tempo(bpm), 0)>>]
             sections == Split(structure, "-")
             built    == SectionLoop(1, sections, section_notes, section_modes,
                                     section_lengths, start)
         IN  IF built.raised # "" THEN built
             ELSE IF Missing(section_notes, 1) \/ Missing(section_modes, 1)
             THEN Raise(built, "IndexError")
             ELSE LET filename == song_filename(section_notes[1], section_modes[1], bpm)
                  IN  [built EXCEPT
                         !.saved = Append(built.saved,
                                          [filename |-> filename, track |-> built.track]),
                         !.filename = filename]

(***************************************************************************)
(* The application window after MidiGeneratorApp.__init__, and the state   *)
(* the variables of a specification hold when it does not use them.        *)
(***************************************************************************)
NoDialog == [kind |-> "", text |-> ""]

\* no exception: the try block of generate_midi ran to its end
NoError == [type |-> "", text |-> ""]

NoRun ==
    [active |-> FALSE, error |-> NoError, bpm |-> 0, structure |-> "", use_random |-> FALSE,
     section_notes |-> <<>>, section_modes |-> <<>>, section_lengths |-> <<>>,
     file |-> NotCalled]

NoCall == [fn |-> ""]

NoRet == [fn |-> ""]

(***************************************************************************)
(* Bounds of the model.                                                    *)
(***************************************************************************)
MaxArgs == 2        \* longest per-section list handed to generate_midi_file directly

MaxEvents == 2      \* GUI events handled in one behaviour

NotePicks == {"C", "B"}

ModePicks == {"Major (Ionian)", "Locrian"}

LengthPicks == {1, 4, 9}

ListsUpTo(S, n) == UNION {[1..k -> S] : k \in 0..n}

(***************************************************************************)
(* SpecFn: the three pure functions, called directly on every note name,   *)
(* every mode and every accepted section length.                           *)
(***************************************************************************)
FnCalls ==
    {[fn |-> "", note |-> n, mode |-> m, length |-> l] :
        n \in NoteNameSet, m \in ModeNameSet, l \in MIN_LENGTH..MAX_LENGTH}

CallSuggestions ==
    /\ ret' = [fn |-> "get_harmonic_suggestions",
               value |-> get_harmonic_suggestions(call.note, call.mode)]
    /\ UNCHANGED <<gui_vars, disk, call>>

CallScale ==
    /\ ret' = [fn |-> "generate_scale",
               value |-> generate_scale(BASE_NOTES[call.note] + MIDDLE_C, call.mode)]
    /\ UNCHANGED <<gui_vars, disk, call>>

CallMelody ==
    /\ LET scale == generate_scale(BASE_NOTES[call.note] + MIDDLE_C, call.mode)
       IN  ret' = [fn |-> "generate_melody", scale |-> scale,
                   value |-> generate_melody(scale, call.length)]
    /\ UNCHANGED <<gui_vars, disk, call>>

(***************************************************************************)
(* SpecFile: generate_midi_file called directly.  One-section songs cover  *)
(* every note, mode and accepted length; songs of one and two labels get   *)
(* per-section lists of every length up to MaxArgs, matching or not, with   *)
(* "H", which is no note name, among the notes.                            *)
(***************************************************************************)
SoloCalls ==
    {[fn |-> "generate_midi_file", bpm |-> b, section_notes |-> <<n>>,
      section_modes |-> <<m>>, section_lengths |-> <<l>>, structure |-> "Verse"] :
        b \in {MIN_BPM, MAX_BPM}, n \in NoteNameSet, m \in ModeNameSet,
        l \in MIN_LENGTH..MAX_LENGTH}

MixedCalls ==
    {[fn |-> "generate_midi_file", bpm |-> 120, section_notes |-> ns,
      section_modes |-> ms, section_lengths |-> ls, structure |-> st] :
        ns \in ListsUpTo(NotePicks \cup {"H"}, MaxArgs), ms \in ListsUpTo(ModePicks, MaxArgs),
        ls \in ListsUpTo(LengthPicks, MaxArgs), st \in {"Verse", "Intro-Verse"}}

FileCalls == SoloCalls \cup MixedCalls

CallGenerateMidiFile ==
    /\ ret = NoRet
    /\ LET result == generate_midi_file(call.bpm, call.section_notes, call.section_modes,
                                        call.section_lengths, call.structure)
       IN  /\ ret' = [fn |-> "generate_midi_file", value |-> result]
           /\ disk' = disk \cup {result.saved[k].filename : k \in 1..Len(result.saved)}
    /\ UNCHANGED <<gui_vars, call>>

(***************************************************************************)
(* MidiGeneratorApp                                                        *)
(***************************************************************************)
\* What the model's user types and picks, and the rows they edit.
BpmTexts == {"19", "20", "300", "301", "12o"}

LengthTexts == {"0", "1", "32", "33", ""}

EditRows == {1, 2}

\* The list left as it was.
NotCleared(list) == list

\* list.clear()
Cleared(list) == <<>>

\* The rows update_section_config builds: the lists are cleared, then one
\* variable per section is appended, holding the widget's default.
section_rows(old, sections, default) ==
    Cleared(old) \o [i \in 1..Len(sections) |-> default]

\* update_harmony_suggestions(current_section_idx), the index counted from 0:
\* the new text of harmony_label
update_harmony_suggestions(current_section_idx, note_vars, mode_vars, structure) ==
    IF current_section_idx = 0
    THEN "First section: No previous section to base suggestions on."
    ELSE LET prev_note   == note_vars[current_section_idx]
             prev_mode   == mode_vars[current_section_idx]
             suggestions == get_harmonic_suggestions(prev_note, prev_mode)
         IN  "Suggestions for " \o Split(structure, "-")[current_section_idx + 1]
                 \o " (based on " \o prev_note \o " " \o prev_mode \o "):\n"
                 \o Join(", ", suggestions)

\* update_section_config, run with the given structure and checkbox value
update_section_config(structure, use_random) ==
    LET sections == Split(structure, "-")
    IN  /\ section_note_vars' = section_rows(section_note_vars, sections, "C")
        /\ section_mode_vars' = section_rows(section_mode_vars, sections, "Major (Ionian)")
        /\ section_length_vars' = section_rows(section_length_vars, sections, "8")
        /\ harmony_label' = update_harmony_suggestions(0, section_note_vars',
                                                       section_mode_vars', structure)

\* The event loop takes the next event: no modal dialog is open.
Idle == messagebox = NoDialog /\ events < MaxEvents

Handled == events' = events + 1 /\ UNCHANGED <<disk, call, ret>>

\* <<ComboboxSelected>> on structure_menu
SelectStructure ==
    \E k \in 1..Len(STRUCTURE_OPTIONS) :
        /\ Idle
        /\ structure_var' = STRUCTURE_OPTIONS[k]
        /\ update_section_config(structure_var', random_notes_var)
        /\ UNCHANGED <<bpm_var, random_notes_var, status_label, messagebox, run>>
        /\ Handled

\* a click on random_notes_check: the variable flips, then the command runs
ToggleRandom ==
    /\ Idle
    /\ random_notes_var' = ~ random_notes_var
    /\ update_section_config(structure_var, random_notes_var')
    /\ UNCHANGED <<bpm_var, structure_var, status_label, messagebox, run>>
    /\ Handled

\* <<ComboboxSelected>> on the note menu of row i: a Combobox only when the rows
\* were built without Random Notes (a Label never raises the event)
SelectNote ==
    \E i \in EditRows \cap (1..Len(section_note_vars)), n \in NotePicks :
        /\ Idle
        /\ ~ random_notes_var
        /\ section_note_vars' = [section_note_vars EXCEPT ![i] = n]
        /\ harmony_label' = update_harmony_suggestions(i - 1, section_note_vars',
                                                       section_mode_vars, structure_var)
        /\ UNCHANGED <<bpm_var, structure_var, random_notes_var, section_mode_vars,
                       section_length_vars, status_label, messagebox, run>>
        /\ Handled

\* <<ComboboxSelected>> on the mode menu of row i
SelectMode ==
    \E i \in EditRows \cap (1..Len(section_mode_vars)), m \in ModePicks :
        /\ Idle
        /\ section_mode_vars' = [section_mode_vars EXCEPT ![i] = m]
        /\ harmony_label' = update_harmony_suggestions(i - 1, section_note_vars,
                                                       section_mode_vars', structure_var)
        /\ UNCHANGED <<bpm_var, structure_var, random_notes_var, section_note_vars,
                       section_length_vars, status_label, messagebox, run>>
        /\ Handled

\* the user edits the length entry of row i
TypeLength ==
    \E i \in EditRows \cap (1..Len(section_length_vars)), text \in LengthTexts :
        /\ Idle
        /\ section_length_vars' = [section_length_vars EXCEPT ![i] = text]
        /\ UNCHANGED <<bpm_var, structure_var, random_notes_var, section_note_vars,
                       section_mode_vars, harmony_label, status_label, messagebox, run>>
        /\ Handled

\* the user edits the BPM entry
TypeBpm ==
    \E text \in BpmTexts :
        /\ Idle
        /\ bpm_var' = text
        /\ UNCHANGED <<structure_var, random_notes_var, section_note_vars,
                       section_mode_vars, section_length_vars, harmony_label,
                       status_label, messagebox, run>>
        /\ Handled

(***************************************************************************)
(* MidiGeneratorApp.generate_midi                                          *)
(***************************************************************************)
ValueError(text) == [type |-> "ValueError", text |-> text]

\* the ValueError of int(text)
InvalidLiteral(text) ==
    ValueError("invalid literal for int() with base 10: '" \o text \o "'")

\* str(e) of an exception generate_midi_file lets through
RaisedText(type) ==
    CASE type = "IndexError"        -> "list index out of range"
      [] type = "KeyError"          -> "KeyError"
      [] type = "ValueError"        -> "data byte must be in range 0..127"
      [] type = "ZeroDivisionError" -> "float division by zero"
      [] OTHER                      -> ""

\* The lower limit itself rejected.
BpmRejectedAtLimit(bpm) == bpm <= MIN_BPM \/ bpm > MAX_BPM

\* bpm < 20 or bpm > 300
BpmRejected(bpm) == bpm < MIN_BPM \/ bpm > MAX_BPM

\* length < 1 or length > 32
LengthRejected(length) == length < MIN_LENGTH \/ length > MAX_LENGTH

\* for length_var in self.section_length_vars: ...
RECURSIVE LengthsLoop(_, _)
LengthsLoop(length_vars, section_lengths) ==
    IF length_vars = <<>> THEN [error |-> NoError, section_lengths |-> section_lengths]
    ELSE LET parsed == ParseInt(Head(length_vars))
         IN  IF ~ parsed.ok
             THEN [error |-> InvalidLiteral(Head(length_vars)),
                   section_lengths |-> section_lengths]
             ELSE IF LengthRejected(parsed.val)
             THEN [error |-> ValueError("Section length must be between 1 and 32 beats."),
                   section_lengths |-> section_lengths]
             ELSE LengthsLoop(Tail(length_vars), Append(section_lengths, parsed.val))

\* [s.split()[0] for s in suggestions]
suggested_notes(suggestions) ==
    [k \in 1..Len(suggestions) |-> SplitWs(suggestions[k])[1]]

\* The notes suggested after a note in a mode, for every note name and mode
\* of the tables (a constant, so that TLC evaluates it once per argument).
SuggestedNotesTable ==
    [n \in NoteNameSet, m \in ModeNameSet |->
        suggested_notes(get_harmonic_suggestions(n, m))]

SuggestedNotes(prev_note, prev_mode) ==
    IF prev_mode \in ModeNameSet
    THEN SuggestedNotesTable[prev_note, prev_mode]
    ELSE suggested_notes(get_harmonic_suggestions(prev_note, prev_mode))

\* The previous section's widget value instead of the note chosen for it.
prev_note_from_widget(section_notes, note_vars, i) == note_vars[i]

\* prev_note = section_notes[i - 1]
prev_note_of(section_notes, note_vars, i) == section_notes[i]

\* for i in range(len(sections)): ...   (i counted from 0, as in the source);
\* choice[i + 1] is the position random.choice picks for section i.
RECURSIVE NotesLoop(_, _, _, _, _, _, _)
NotesLoop(i, n, use_random, choice, section_notes, section_modes, note_vars) ==
    IF i >= n THEN [error |-> NoError, section_notes |-> section_notes]
    ELSE IF use_random /\ i > 0
    THEN IF i > Len(section_modes)
         THEN [error |-> [type |-> "IndexError", text |-> RaisedText("IndexError")],
               section_notes |-> section_notes]
         ELSE IF prev_note_of(section_notes, note_vars, i) \notin DOMAIN BASE_NOTES
         THEN [error |-> [type |-> "KeyError", text |-> RaisedText("KeyError")],
               section_notes |-> section_notes]
         ELSE LET prev_note   == prev_note_of(section_notes, note_vars, i)
                  chosen_note == SuggestedNotes(prev_note, section_modes[i])[choice[i + 1]]
              IN  NotesLoop(i + 1, n, use_random, choice,
                            Append(section_notes, chosen_note), section_modes, note_vars)
    ELSE IF i + 1 > Len(note_vars)
         THEN [error |-> [type |-> "IndexError", text |-> RaisedText("IndexError")],
               section_notes |-> section_notes]
         ELSE NotesLoop(i + 1, n, use_random, choice,
                        Append(section_notes, note_vars[i + 1]), section_modes, note_vars)

\* The try block as far as the validation goes (bpm, then every length): the
\* locals as they stand there, and the ValueError that ended it, if any.
generate_midi_validate ==
    LET parsed     == ParseInt(bpm_var)
        bpm        == parsed.val
        structure  == structure_var
        use_random == random_notes_var
        begun      == [NoRun EXCEPT !.active = TRUE]
    IN  IF ~ parsed.ok THEN [begun EXCEPT !.error = InvalidLiteral(bpm_var)]
        ELSE IF BpmRejected(bpm)
        THEN [begun EXCEPT !.error = ValueError("BPM must be between 20 and 300."),
                           !.bpm = bpm, !.structure = structure,
                           !.use_random = use_random]
        ELSE LET lengths == LengthsLoop(section_length_vars, <<>>)
             IN  [begun EXCEPT !.bpm = bpm, !.structure = structure,
                               !.use_random = use_random,
                               !.section_modes = section_mode_vars,
                               !.section_lengths = lengths.section_lengths,
                               !.error = lengths.error]

\* The rest of the try block, entered with the validated locals: the notes of
\* the sections, then generate_midi_file.
generate_midi_build(validated, choice) ==
    LET sections == Split(validated.structure, "-")
        notes    == NotesLoop(0, Len(sections), validated.use_random, choice, <<>>,
                              validated.section_modes, section_note_vars)
        picked   == [validated EXCEPT !.section_notes = notes.section_notes]
    IN  IF notes.error # NoError THEN [picked EXCEPT !.error = notes.error]
        ELSE LET file == generate_midi_file(validated.bpm, notes.section_notes,
                             validated.section_modes, validated.section_lengths,
                             validated.structure)
             IN  [picked EXCEPT
                    !.file = file,
                    !.error = IF file.raised = "" THEN NoError
                              ELSE [type |-> file.raised,
                                    text |-> RaisedText(file.raised)]]

\* What random.choice may pick in one run: one of the 4 suggestions for every
\* section after the first, when Random Notes is on.
Choices(structure, use_random) ==
    IF use_random
    THEN [2..Len(Split(structure, "-")) -> 1..Len(SuggestionOffsets)]
    ELSE {<<>>}

\* A click on generate_button: the handler runs to the message box it shows,
\* which is modal, and stays there until the user closes it.
generate_midi ==
    /\ Idle
    /\ \E validated \in {generate_midi_validate} :
          IF validated.error # NoError
          THEN run' = validated
          ELSE \E choice \in Choices(validated.structure, validated.use_random) :
                  run' = generate_midi_build(validated, choice)
    /\ disk' = disk \cup {run'.file.saved[k].filename : k \in 1..Len(run'.file.saved)}
    /\ IF run'.error = NoError
       THEN /\ status_label' = "MIDI file generated: " \o run'.file.filename
            /\ messagebox' = [kind |-> "info",
                              text |-> "MIDI file '" \o run'.file.filename
                                \o "' generated successfully! Import it into FL Studio."]
       ELSE IF run'.error.type = "ValueError"
       THEN /\ status_label' = run'.error.text
            /\ messagebox' = [kind |-> "error", text |-> run'.error.text]
       ELSE /\ status_label' = "Error generating MIDI file"
            /\ messagebox' = [kind |-> "error",
                              text |-> "An error occurred: " \o run'.error.text]
    /\ events' = events + 1
    /\ UNCHANGED <<bpm_var, structure_var, random_notes_var, section_note_vars,
                   section_mode_vars, section_length_vars, harmony_label,
                   call, ret>>

\* The user closes the message box: generate_midi returns and its locals are gone.
CloseMessagebox ==
    /\ messagebox # NoDialog
    /\ messagebox' = NoDialog
    /\ run' = NoRun
    /\ UNCHANGED <<bpm_var, structure_var, random_notes_var, section_note_vars,
                   section_mode_vars, section_length_vars, harmony_label,
                   status_label, disk, events, call, ret>>

(***************************************************************************)
(* The properties.  They are stated on the data of a call (call, ret, run) *)
(* and on the tables, with their own arithmetic for positions and counts.  *)
(***************************************************************************)
RECURSIVE Sum(_)
Sum(list) == IF list = <<>> THEN 0 ELSE Head(list) + Sum(Tail(list))

\* the number of '-'-separated labels of a structure: its dashes plus one
LabelCount(structure) ==
    Cardinality({i \in 1..Len(structure) : CharAt(structure, i) = "-"}) + 1

LabelCounts ==
    [structure \in {STRUCTURE_OPTIONS[k] : k \in 1..Len(STRUCTURE_OPTIONS)} |->
        LabelCount(structure)]

\* the name of the note at position q of the circle of fifths, q taken modulo 12
CircleNote(q) == NOTE_NAMES[CIRCLE_OF_FIFTHS[(q % 12) + 1] + 1]

\* the position of a note name on the circle of fifths, 0..11
CirclePos == [name \in NoteNameSet |-> CHOOSE p \in 0..11 : CircleNote(p) = name]

\* how many positions apart two notes are on the circle, the short way round
CircleDistance(a, b) ==
    LET d == (CirclePos[b] - CirclePos[a]) % 12
    IN  IF d > 6 THEN 12 - d ELSE d

\* the position in the track of the note_on of beat b of section i (both
\* counted from 1), the set_tempo message standing at position 1
BeatPos(lengths, i, b) == 2 * (Sum(SubSeq(lengths, 1, i - 1)) + b)

Returned == ret.fn = "generate_midi_file"

\* bpm in 20..300, as many notes, modes and lengths as labels, every note and
\* mode one of the tables, every length in 1..32
ValidCall ==
    LET k == LabelCount(call.structure)
    IN  /\ call.bpm \in 20..300
        /\ Len(call.section_notes) = k
        /\ Len(call.section_modes) = k
        /\ Len(call.section_lengths) = k
        /\ \A i \in 1..k : /\ call.section_notes[i] \in NoteNameSet
                           /\ call.section_modes[i] \in ModeNameSet
                           /\ call.section_lengths[i] \in 1..32

\* C1: on a valid input the track generate_midi_file builds and saves is one
\* set_tempo message with time 0, then 2 * (sum of the section lengths) note
\* messages, alternately a note_on with time 0 and velocity 100 and a note_off
\* with time 480 and the pitch of the note_on before it, the messages of
\* section i standing before those of section i + 1: beat b of section i is
\* at position 2 * (beats of the sections before i + b) and carries the pitch
\* of beat b of that section's melody.
C1_TrackStructure ==
    (Returned /\ ValidCall) =>
        LET track   == ret.value.track
            notes   == call.section_notes
            modes   == call.section_modes
            lengths == call.section_lengths
            beats   == Sum(lengths)
        IN  /\ ret.value.raised = ""
            /\ Len(track) = 1 + (2 * beats)
            /\ track[1].type = "set_tempo"
            /\ track[1].time = 0
            /\ \A j \in 1..beats :
                  /\ track[2 * j].type = "note_on"
                  /\ track[2 * j].time = 0
                  /\ track[2 * j].velocity = 100
                  /\ track[(2 * j) + 1].type = "note_off"
                  /\ track[(2 * j) + 1].time = 480
                  /\ track[(2 * j) + 1].note = track[2 * j].note
            /\ \A i \in 1..Len(lengths) :
                  LET scale == generate_scale(BASE_NOTES[notes[i]] + 60, modes[i])
                  IN  \A b \in 1..lengths[i] :
                         track[BeatPos(lengths, i, b)].note =
                             scale[((b - 1) % 7) + 1] + (12 * ((b - 1) \div 7))
            /\ ret.value.saved = <<[filename |-> ret.value.filename, track |-> track]>>

\* "Intro-Verse" in C and B with 4 and 9 beats: 1 + 26 messages, the first
\* note of the second section at position 10
C1_Witness ==
    /\ Returned
    /\ call.structure = "Intro-Verse"
    /\ call.section_notes = <<"C", "B">>
    /\ call.section_lengths = <<4, 9>>
    /\ Len(ret.value.track) = 27
    /\ ret.value.track[10].note = 71
    /\ ret.value.track[11].time = 480

\* C2: for each of the 12 note names (root pitch = pitch-class index + 60)
\* and each of the 7 modes, generate_scale returns 7 integers, the first the
\* root pitch, each later one the previous plus the mode's next interval (the
\* first 6 of them), strictly increasing, the last less than 12 above the first.
C2_Scale ==
    (ret.fn = "generate_scale") =>
        LET scale == ret.value
            root  == BASE_NOTES[call.note] + 60
        IN  /\ Len(scale) = 7
            /\ scale[1] = root
            /\ \A j \in 1..6 : /\ scale[j + 1] = scale[j] + MODES[call.mode][j]
                               /\ scale[j + 1] > scale[j]
            /\ scale[7] - scale[1] < 12

C2_Witness ==
    /\ ret.fn = "generate_scale"
    /\ call.note = "B"
    /\ call.mode = "Lydian"
    /\ ret.value = <<71, 73, 75, 77, 78, 80, 82>>

\* C3: for a 7-note scale and a length n in 1..32, generate_melody returns n
\* events, the event of beat i (from 0) with pitch scale[i mod 7] +
\* 12 * (i div 7), duration 480 and velocity 100; for n = 7 the pitches are
\* the scale, for n = 8 the 8th pitch is scale[0] + 12.
C3_Melody ==
    (ret.fn = "generate_melody") =>
        LET melody == ret.value
            scale  == ret.scale
            n      == call.length
        IN  /\ Len(scale) = 7
            /\ n \in 1..32
            /\ Len(melody) = n
            /\ \A i \in 0..(n - 1) :
                  /\ melody[i + 1].note = scale[(i % 7) + 1] + (12 * (i \div 7))
                  /\ melody[i + 1].duration = 480
                  /\ melody[i + 1].velocity = 100
            /\ (n = 7) => ([j \in 1..7 |-> melody[j].note] = scale)
            /\ (n = 8) => (melody[8].note = scale[1] + 12)

C3_Witness ==
    /\ ret.fn = "generate_melody"
    /\ call.note = "C"
    /\ call.mode = "Major (Ionian)"
    /\ call.length = 8
    /\ ret.value[7].note = 71
    /\ ret.value[8].note = 72

\* C4: for each note name and mode, get_harmonic_suggestions returns 4
\* suggestions, their notes those at positions p - 1, p + 1, p - 2, p + 2
\* (modulo 12) of the circle of fifths, p the position of the input note;
\* the four notes differ from each other and from the input note; the tag is
\* 'Major (Ionian)' for the modes Major (Ionian), Lydian and Mixolydian and
\* 'Minor (Aeolian)' for the other four.
C4_Suggestions ==
    (ret.fn = "get_harmonic_suggestions") =>
        LET p        == CirclePos[call.note]
            tag      == IF call.mode \in {"Major (Ionian)", "Lydian", "Mixolydian"}
                        THEN "Major (Ionian)"
                        ELSE "Minor (Aeolian)"
            expected == <<CircleNote(p - 1), CircleNote(p + 1),
                          CircleNote(p - 2), CircleNote(p + 2)>>
        IN  /\ Len(ret.value) = 4
            /\ \A k \in 1..4 : ret.value[k] = expected[k] \o " (" \o tag \o ")"
            /\ \A j, k \in 1..4 : (j # k) => (ret.value[j] # ret.value[k])
            /\ \A j, k \in 1..4 : (j # k) => (expected[j] # expected[k])
            /\ \A k \in 1..4 : expected[k] # call.note

\* F stands last on the circle: p + 1 and p + 2 wrap round to C and G
C4_Witness ==
    /\ ret.fn = "get_harmonic_suggestions"
    /\ call.note = "F"
    /\ call.mode = "Mixolydian"
    /\ ret.value = <<"A# (Major (Ionian))", "C (Major (Ionian))",
                     "D# (Major (Ionian))", "G (Major (Ionian))">>

\* C5 as the specification states it: get_harmonic_suggestions("C",
\* "Major (Ionian)") returns F, G, D# and D in this order, all tagged
\* 'Major (Ionian)', the circle indices 11, 1, 10, 2 holding the pitch
\* classes 5, 7, 3, 2.
C5_SuggestionsForCMajor ==
    (ret.fn = "get_harmonic_suggestions" /\ call.note = "C"
        /\ call.mode = "Major (Ionian)") =>
        /\ ret.value = <<"F (Major (Ionian))", "G (Major (Ionian))",
                         "D# (Major (Ionian))", "D (Major (Ionian))">>
        /\ <<CIRCLE_OF_FIFTHS[11 + 1], CIRCLE_OF_FIFTHS[1 + 1],
             CIRCLE_OF_FIFTHS[10 + 1], CIRCLE_OF_FIFTHS[2 + 1]>> = <<5, 7, 3, 2>>

\* C5, amended: get_harmonic_suggestions("C", "Major (Ionian)") returns F, G,
\* A# and D in this order, all tagged 'Major (Ionian)': C is at index 0 of
\* the circle of fifths 0,7,2,9,4,11,6,1,8,3,10,5, the offsets -1, +1, -2, +2
\* lead to the indices 11, 1, 10, 2, and these hold the pitch classes 5, 7,
\* 10, 2.
C5_SuggestionsForCMajorAmended ==
    (ret.fn = "get_harmonic_suggestions" /\ call.note = "C"
        /\ call.mode = "Major (Ionian)") =>
        /\ ret.value = <<"F (Major (Ionian))", "G (Major (Ionian))",
                         "A# (Major (Ionian))", "D (Major (Ionian))">>
        /\ CIRCLE_OF_FIFTHS = <<0, 7, 2, 9, 4, 11, 6, 1, 8, 3, 10, 5>>
        /\ IndexOf(CIRCLE_OF_FIFTHS, BASE_NOTES["C"]) = 0
        /\ <<CIRCLE_OF_FIFTHS[11 + 1], CIRCLE_OF_FIFTHS[1 + 1],
             CIRCLE_OF_FIFTHS[10 + 1], CIRCLE_OF_FIFTHS[2 + 1]>> = <<5, 7, 10, 2>>
        /\ <<NOTE_NAMES[5 + 1], NOTE_NAMES[7 + 1], NOTE_NAMES[10 + 1], NOTE_NAMES[2 + 1]>>
               = <<"F", "G", "A#", "D">>

C5_Witness ==
    /\ ret.fn = "get_harmonic_suggestions"
    /\ call.note = "C"
    /\ call.mode = "Major (Ionian)"
    /\ Len(ret.value) = 4
    /\ ret.value[3] = "A# (Major (Ionian))"

\* the texts of the integers a range holds, as str() writes them
AcceptedBpmTexts == {Str(n) : n \in 20..300}

AcceptedLengthTexts == {Str(n) : n \in 1..32}

\* the state a run of generate_midi ends in, its message box still open
RunOutcome ==
    LET file     == run.file
        success  == messagebox.kind = "info"
        failure  == messagebox.kind = "error"
        accepted == /\ bpm_var \in AcceptedBpmTexts
                    /\ \A i \in 1..Len(section_length_vars) :
                          section_length_vars[i] \in AcceptedLengthTexts
    IN  /\ success # failure
        /\ success <=> accepted
        /\ success =>
              /\ Len(file.saved) = 1
              /\ file.saved[1].track = file.track
              /\ Len(run.section_lengths) = LabelCounts[structure_var]
              /\ Len(file.track) = 1 + (2 * Sum(run.section_lengths))
              /\ file.scales = LabelCounts[structure_var]
              /\ file.melodies = LabelCounts[structure_var]
              /\ file.saved[1].filename \in disk
        /\ failure =>
              /\ file.saved = <<>>
              /\ file.track = <<>>
              /\ file.scales = 0
              /\ file.melodies = 0

\* C6: a run of generate_midi ends in exactly one of success and error.  In
\* success the file is written once, with the complete track of all sections;
\* in error no file is written and the files on disk are those from before.
\* The run succeeds exactly when the bpm text is an integer in 20..300 and
\* every length text an integer in 1..32 (20, 300, 1 and 32 accepted); 19,
\* 301, 0 and 33 end in error with no scale, melody or message generated.
C6_RunOutcomes ==
    [][(~ run.active /\ run'.active) =>
          /\ RunOutcome'
          /\ (messagebox'.kind = "error") => (disk' = disk)
          /\ (messagebox'.kind = "info") =>
                (disk' = disk \cup {run'.file.saved[1].filename})]_vars

\* a first section of 32 beats, the upper limit, and seven of 8: accepted
C6_Witness ==
    /\ run.active
    /\ bpm_var = "120"
    /\ section_length_vars[1] = "32"
    /\ messagebox.kind = "info"
    /\ Len(run.file.saved) = 1
    /\ Len(run.file.track) = 1 + (2 * (32 + (7 * 8)))

\* some list has another number of entries than the structure has labels
Mismatch ==
    LET k == LabelCount(call.structure)
    IN  \/ Len(call.section_notes) # k
        \/ Len(call.section_modes) # k
        \/ Len(call.section_lengths) # k

\* some list has fewer entries than the structure has labels
Shorter ==
    LET k == LabelCount(call.structure)
    IN  \/ Len(call.section_notes) < k
        \/ Len(call.section_modes) < k
        \/ Len(call.section_lengths) < k

SuggestedNoteSet ==
    [n \in NoteNameSet, m \in ModeNameSet |->
        {x \in NoteNameSet :
            \E k \in 1..4, tag \in {"Major (Ionian)", "Minor (Aeolian)"} :
                get_harmonic_suggestions(n, m)[k] = x \o " (" \o tag \o ")"}]

\* C8: with Random Notes on, whatever random.choice picks, the first
\* section's root note is the value of its note variable and every later
\* section's root note is one of the notes get_harmonic_suggestions suggests
\* for the root note used by the section before and that section's mode, so 1
\* or 2 positions from it on the circle of fifths and never equal to it; with
\* Random Notes off every section uses the value of its note variable.  The
\* root note used is the one the section's first message carries.
C8_RandomNotes ==
    (run.active /\ run.error = NoError) =>
        LET notes   == run.section_notes
            modes   == run.section_modes
            lengths == run.section_lengths
            k       == LabelCounts[structure_var]
        IN  /\ Len(notes) = k
            /\ run.use_random = random_notes_var
            /\ \A i \in 1..k :
                  run.file.track[BeatPos(lengths, i, 1)].note = BASE_NOTES[notes[i]] + 60
            /\ IF run.use_random
               THEN /\ notes[1] = section_note_vars[1]
                    /\ \A i \in 2..k :
                          /\ notes[i] \in SuggestedNoteSet[notes[i - 1], modes[i - 1]]
                          /\ CircleDistance(notes[i - 1], notes[i]) \in {1, 2}
                          /\ notes[i] # notes[i - 1]
               ELSE notes = section_note_vars

\* a run that steps one position down the circle at every section
C8_Witness ==
    /\ run.active
    /\ run.error = NoError
    /\ random_notes_var
    /\ run.section_notes = <<"C", "F", "A#", "D#", "G#", "C#", "F#", "B">>
    /\ Len(run.file.saved) = 1

\* C9: after any sequence of GUI events the lists section_note_vars,
\* section_mode_vars and section_length_vars have one length, the number of
\* '-'-separated labels of the selected structure, and no run of
\* generate_midi ends in an IndexError or reads fewer notes, modes or lengths
\* than there are labels.
C9_SectionLists ==
    /\ structure_var \in DOMAIN LabelCounts
    /\ Len(section_note_vars) = LabelCounts[structure_var]
    /\ Len(section_mode_vars) = LabelCounts[structure_var]
    /\ Len(section_length_vars) = LabelCounts[structure_var]
    /\ run.active =>
          /\ run.error.type \notin {"IndexError", "KeyError"}
          /\ run.file.raised = ""
          /\ (run.error = NoError) =>
                /\ Len(run.section_notes) = LabelCounts[structure_var]
                /\ Len(run.section_modes) = LabelCounts[structure_var]
                /\ Len(run.section_lengths) = LabelCounts[structure_var]

\* the 4-label structure selected, then a run that succeeded
C9_Witness ==
    /\ structure_var = STRUCTURE_OPTIONS[3]
    /\ Len(section_note_vars) = 4
    /\ Len(section_mode_vars) = 4
    /\ Len(section_length_vars) = 4
    /\ run.active
    /\ run.error = NoError
    /\ Len(run.section_notes) = 4

\* C10: for every note name, mode and section length in 1..32, every pitch
\* in a note_on or note_off message is in 0..127: the pitch of beat b is at
\* least the root pitch (60..71) and at most the root pitch plus 11 plus 12
\* for every 7 beats completed before it, and no message is refused.
C10_PitchRange ==
    (Returned /\ ValidCall) =>
        LET track   == ret.value.track
            lengths == call.section_lengths
        IN  /\ ret.value.raised = ""
            /\ Len(ret.value.saved) = 1
            /\ \A j \in 2..Len(track) : track[j].note \in 0..127
            /\ \A i \in 1..Len(lengths) :
                  LET root == BASE_NOTES[call.section_notes[i]] + 60
                  IN  /\ root \in 60..71
                      /\ \A b \in 1..lengths[i] :
                            LET pitch == track[BeatPos(lengths, i, b)].note
                            IN  /\ pitch >= root
                                /\ pitch <= root + 11 + (12 * ((b - 1) \div 7))

\* B Lydian over 32 beats: the last beat has pitch 125, the highest there is
C10_Witness ==
    /\ Returned
    /\ call.section_notes = <<"B">>
    /\ call.section_modes = <<"Lydian">>
    /\ call.section_lengths = <<32>>
    /\ ret.value.raised = ""
    /\ Len(ret.value.track) = 65
    /\ ret.value.track[64].note = 125
    /\ ret.value.track[65].note = 125

(***************************************************************************)
(* The specifications.                                                     *)
(***************************************************************************)
\* The window as __init__ leaves it
Constructed ==
    /\ bpm_var = "120"
    /\ structure_var = STRUCTURE_OPTIONS[1]
    /\ random_notes_var = FALSE
    /\ section_note_vars = section_rows(<<>>, Split(STRUCTURE_OPTIONS[1], "-"), "C")
    /\ section_mode_vars =
           section_rows(<<>>, Split(STRUCTURE_OPTIONS[1], "-"), "Major (Ionian)")
    /\ section_length_vars = section_rows(<<>>, Split(STRUCTURE_OPTIONS[1], "-"), "8")
    /\ harmony_label = update_harmony_suggestions(0, section_note_vars,
                                                  section_mode_vars, structure_var)
    /\ status_label = "Ready to generate..."
    /\ messagebox = NoDialog
    /\ run = NoRun
    /\ events = 0

Init ==
    /\ Constructed
    /\ disk = {}
    /\ call = NoCall
    /\ ret = NoRet

Next ==
    \/ SelectStructure
    \/ ToggleRandom
    \/ SelectNote
    \/ SelectMode
    \/ TypeLength
    \/ TypeBpm
    \/ generate_midi
    \/ CloseMessagebox

Spec == Init /\ [][Next]_vars

InitFn ==
    /\ Constructed
    /\ disk = {}
    /\ call \in FnCalls
    /\ ret = NoRet

NextFn == CallSuggestions \/ CallScale \/ CallMelody

SpecFn == InitFn /\ [][NextFn]_vars

InitFile ==
    /\ Constructed
    /\ disk = {}
    /\ call \in FileCalls
    /\ ret = NoRet

NextFile == CallGenerateMidiFile

SpecFile == InitFile /\ [][NextFile]_vars

====
